---- MODULE Spec2Model ----
(***************************************************************************)
(* The kernel/userland boundary of arch/riscv32i/src/syscall.rs: the       *)
(* saved-state record RiscvimacStoredState, the facade operations          *)
(* set_syscall_return_value and set_process_function, and the assembly     *)
(* state machine of switch_to_process, one action per block of the         *)
(* assembly template, followed by the Rust outcome construction.           *)
(*                                                                         *)
(* Words are 32-bit and are written as signed integers MinInt32..MaxInt32  *)
(* (two's complement), which is how `blt t0, x0` reads them.               *)
(*                                                                         *)
(* The operands $0..$8 of the template are modelled as storage cells of    *)
(* their own, distinct from x1..x31.  An output operand the executed path  *)
(* never writes has no defined value when the template ends: it is drawn   *)
(* nondeterministically.                                                   *)
(***************************************************************************)
EXTENDS Integers, Sequences, FiniteSets, TLC

\* ------------------------------------------------------------------ bounds
\* calls of the scheduler (facade writes, switches) and register writes of
\* the process in one behaviour
MaxEvents == 3

\* ------------------------------------------------------- program constants
MaxInt32       == 2147483647          \* usize is 32 bits on riscv32
MinInt32       == -2147483647 - 1
NumSlots       == 32                  \* regs: [usize; 32]
KernelSaveSize == 31                  \* addi sp, sp, -31*4
RaSlot         == 0                   \* state.regs[0]
SpSlot         == 1                   \* lw $6, 1*4($8)
A0Slot         == 9                   \* state.regs[9]
A1Slot         == 10
A2Slot         == 11
A3Slot         == 12
A4Slot         == 13                  \* lw $5, 13*4($8)
InsnWidth      == 4                   \* addi t0, t0, 4
CauseMask      == 511                 \* andi t0, t0, 0x1ff
EcallUmode     == 8                   \* li t1, 8
MppMieMask     == 6152                \* li t1, 0x1808
MpieBit        == 128                 \* ori t0, t0, 0x80
T0             == 5                   \* t0 = x5
T1             == 6                   \* t1 = x6
MstatusCsr     == 768                 \* csrr t0, 0x300
MscratchCsr    == 832                 \* csrw 0x340, sp
MepcCsr        == 833                 \* csrw 0x341, t0
McauseCsr      == MscratchCsr + 2     \* mcause, 0x342: set by the hardware

\* -------------------------------------------------- inputs (small sets)
StackPointers  == {8192, 8448}                 \* stack_pointer arguments
RemainingStack == {0, 512}                     \* _remaining_stack_memory
ReturnValues   == {7, -1}                      \* return_value: isize
Callbacks      == {[pc |-> 4096, args |-> <<1, 2, 3, 4>>],          \* 0x1000
                   [pc |-> MaxInt32 - 3, args |-> <<10, 0, 0, 0>>]} \* 0x7ffffffc
ProcWrites     == {2, 10, 14}                  \* registers the process writes
ProcWords      == {6, 257}                     \* values the process writes
TrapPcs        == {4104}                       \* where the process may trap
CauseValues    == {8, 520, 2, MinInt32 + 8}    \* 0x208, 0x80000008
MstatusValues  == {6280}                       \* mstatus at start: 0x1888
MarkerGarbage  == {0, 1, 2}                    \* an unwritten $0
WordGarbage    == {1}                          \* an unwritten $1..$6

Regs      == 1..31
Restored  == Regs \ {2}                        \* lw x1, x3..x31
Slots     == 0..(NumSlots - 1)

\* ------------------------------------------------------ 32-bit arithmetic
\* a + b on 32 bits, b >= 0
Add32(a, b) ==
    IF a > MaxInt32 - b THEN MinInt32 + (b - (MaxInt32 - a) - 1) ELSE a + b

Bit(w, k) == (w \div (2 ^ k)) % 2

\* bit k (0..31) of a word; bit 31 is the sign
BitOf(w, k) == IF k = 31 THEN (IF w < 0 THEN 1 ELSE 0) ELSE Bit(w, k)

RECURSIVE LowBits(_, _)
\* the value of bits 0..k-1 of the bit vector b
LowBits(b, k) == IF k = 0 THEN 0 ELSE LowBits(b, k - 1) + b[k - 1] * (2 ^ (k - 1))

FromBits(b) == (IF b[31] = 1 THEN MinInt32 ELSE 0) + LowBits(b, 31)

And32(a, b) == FromBits([k \in 0..31 |-> BitOf(a, k) * BitOf(b, k)])
Or32(a, b)  == FromBits([k \in 0..31 |-> IF BitOf(a, k) + BitOf(b, k) > 0 THEN 1 ELSE 0])
Not32(a)    == -a - 1

\* `syscall0 as u8`
AsU8(w) == w % 256

\* ------------------------------------------------------ the state record
\* #[derive(Default)] RiscvimacStoredState
DefaultStoredState == [regs |-> [i \in Slots |-> 0], pc |-> 0]

VARIABLES
    pcl,            \* control location
    state,          \* the RiscvimacStoredState of the process
    x,              \* the live register file x1..x31
    kstack,         \* the 31-word save area on the kernel stack
    mscratch,       \* CSR 0x340
    mstatus,        \* CSR 0x300
    mepc,           \* CSR 0x341
    mcause,         \* CSR 0x342, set by the hardware at a trap
    stack_pointer,  \* operand $7 of the current switch
    written,        \* output operands $0..$6 written by the template so far
    outv,           \* their values
    result,         \* what switch_to_process returned last
    spfResult,      \* what set_process_function returned last
    lastSet,        \* last facade write since the last switch returned
    trapx,          \* the process's registers at its last trap
    psteps,         \* process register writes in this slice
    nevents,        \* scheduler calls and process writes so far
    nswitch,        \* completed switches
    onlyEcalls,     \* every completed switch ended in an environment call
    engineAdvance,  \* sum of what the _ecall block added to state.pc
    entryx,         \* the register file at the entry of the last switch
    csrs            \* the control registers the template has accessed

vars == <<pcl, state, x, kstack, mscratch, mstatus, mepc, mcause,
          stack_pointer, written, outv, result, spfResult, lastSet, trapx,
          psteps, nevents, nswitch, onlyEcalls, engineAdvance, entryx, csrs>>

StateAddress  == 3 * 4096
KernelStackTop == 8 * 4096
KernelRegs == [n \in Regs |-> IF n = 2 THEN KernelStackTop ELSE 64 + n]

NoSet    == [op |-> "none", sp |-> 0, v |-> 0,
             cb |-> [pc |-> 0, args |-> <<0, 0, 0, 0>>], first |-> FALSE]
NoResult == [newsp |-> 0, tag |-> "None", class |-> 0, args |-> <<0, 0, 0, 0>>]
NoSpf    == [tag |-> "None", sp |-> 0]

Init ==
    /\ pcl = "kernel"
    /\ state = DefaultStoredState
    /\ x = KernelRegs
    /\ kstack = [i \in 0..(KernelSaveSize - 1) |-> 0]
    /\ mscratch = 0
    /\ mstatus \in MstatusValues
    /\ mepc = 0
    /\ mcause = 0
    /\ stack_pointer = 0
    /\ written = {}
    /\ outv = [i \in 0..6 |-> 0]
    /\ result = NoResult
    /\ spfResult = NoSpf
    /\ lastSet = NoSet
    /\ trapx = [n \in Regs |-> 0]
    /\ psteps = 0
    /\ nevents = 0
    /\ nswitch = 0
    /\ onlyEcalls = TRUE
    /\ engineAdvance = 0
    /\ entryx = KernelRegs
    /\ csrs = {}

\* ---------------------------------------------------------- facade writes
\* (mutant) the return value lands in the a1 slot
SetReturnValue_WrongSlot(st, v) == [st EXCEPT !.regs[A1Slot] = v]

\* state.regs[9] = return_value as usize
SetReturnValue(st, v) == [st EXCEPT !.regs[A0Slot] = v]

\* (mutant) the arguments go to a1..a4
PrimeState_ArgsShifted(st, cb, first) ==
    LET withArgs == [st EXCEPT !.regs[A1Slot] = cb.args[1],
                               !.regs[A2Slot] = cb.args[2],
                               !.regs[A3Slot] = cb.args[3],
                               !.regs[A4Slot] = cb.args[4]]
        withRa   == IF ~first
                    THEN [withArgs EXCEPT !.regs[RaSlot] = withArgs.pc]
                    ELSE withArgs
    IN  [withRa EXCEPT !.pc = cb.pc]

\* (mutant) ra is set after the PC, to the new entry address
PrimeState_RaAfterPc(st, cb, first) ==
    LET withArgs == [st EXCEPT !.regs[A0Slot] = cb.args[1],
                               !.regs[A1Slot] = cb.args[2],
                               !.regs[A2Slot] = cb.args[3],
                               !.regs[A3Slot] = cb.args[4]]
        withPc   == [withArgs EXCEPT !.pc = cb.pc]
    IN  IF ~first THEN [withPc EXCEPT !.regs[RaSlot] = withPc.pc] ELSE withPc

\* the body of set_process_function on the record
PrimeState(st, cb, first) ==
    LET withArgs == [st EXCEPT !.regs[A0Slot] = cb.args[1],
                               !.regs[A1Slot] = cb.args[2],
                               !.regs[A2Slot] = cb.args[3],
                               !.regs[A3Slot] = cb.args[4]]
        withRa   == IF ~first
                    THEN [withArgs EXCEPT !.regs[RaSlot] = withArgs.pc]
                    ELSE withArgs
    IN  [withRa EXCEPT !.pc = cb.pc]

\* (mutant) the failure variant
PrimeResult_Err(sp) == [tag |-> "Err", sp |-> sp]

\* Ok(stack_pointer as *mut usize)
PrimeResult(sp) == [tag |-> "Ok", sp |-> sp]

set_syscall_return_value ==
    /\ pcl = "kernel"
    /\ nevents < MaxEvents
    /\ \E sp \in StackPointers, v \in ReturnValues :
          /\ state' = SetReturnValue(state, v)
          /\ lastSet' = [NoSet EXCEPT !.op = "srv", !.v = v]
    /\ nevents' = nevents + 1
    /\ UNCHANGED <<entryx, csrs, pcl, x, kstack, mscratch, mstatus, mepc, mcause,
                   stack_pointer, written, outv, result, spfResult, trapx,
                   psteps, nswitch, onlyEcalls, engineAdvance>>

set_process_function ==
    /\ pcl = "kernel"
    /\ nevents < MaxEvents
    /\ \E sp \in StackPointers, rem \in RemainingStack,
          cb \in Callbacks, first \in BOOLEAN :
          /\ state' = PrimeState(state, cb, first)
          /\ spfResult' = PrimeResult(sp)
          /\ lastSet' = [op |-> "spf", sp |-> sp, v |-> 0, cb |-> cb,
                         first |-> first]
    /\ nevents' = nevents + 1
    /\ UNCHANGED <<entryx, csrs, pcl, x, kstack, mscratch, mstatus, mepc, mcause,
                   stack_pointer, written, outv, result, trapx,
                   psteps, nswitch, onlyEcalls, engineAdvance>>

\* ------------------------------------------------- switch_to_process: enter
\* (mutant) the store of x5 (t0) is missing: its slot keeps the old word
SavedKernelRegs_WithoutT0(regs) ==
    [i \in 0..(KernelSaveSize - 1) |->
        IF i = 0 THEN regs[1]
        ELSE IF i = 3 THEN kstack[3]
        ELSE IF i <= 29 THEN regs[i + 2]
        ELSE StateAddress]

\* addi sp, sp, -31*4 ; sw x1, x3..x31 ; sw $8, 30*4(sp)
SavedKernelRegs(regs) ==
    [i \in 0..(KernelSaveSize - 1) |->
        IF i = 0 THEN regs[1]
        ELSE IF i <= 29 THEN regs[i + 2]
        ELSE StateAddress]

save_kernel_registers ==
    /\ pcl = "kernel"
    /\ nevents < MaxEvents
    /\ nevents' = nevents + 1
    /\ \E sp \in StackPointers : stack_pointer' = sp
    /\ x' = [x EXCEPT ![2] = x[2] - KernelSaveSize * 4]
    /\ kstack' = SavedKernelRegs(x)
    /\ written' = {}
    /\ outv' = [i \in 0..6 |-> 0]
    /\ result' = NoResult
    /\ spfResult' = NoSpf
    /\ entryx' = x
    /\ pcl' = "csrw_mscratch"
    /\ UNCHANGED <<csrs, state, mscratch, mstatus, mepc, mcause, lastSet, trapx,
                   psteps, nswitch, onlyEcalls, engineAdvance>>

\* csrw 0x340, sp
save_mscratch ==
    /\ pcl = "csrw_mscratch"
    /\ mscratch' = x[2]
    /\ csrs' = csrs \cup {MscratchCsr}
    /\ pcl' = "set_mstatus"
    /\ UNCHANGED <<entryx, state, x, kstack, mstatus, mepc, mcause, stack_pointer,
                   written, outv, result, spfResult, lastSet, trapx, psteps,
                   nevents, nswitch, onlyEcalls, engineAdvance>>

\* (mutant) the mask as the comment spells it, MSTATUS_MPP & MSTATUS_MIE
UserModeStatus_MaskAnded(m) == Or32(And32(m, Not32(And32(6144, 8))), MpieBit)

\* and t0, t0, ~0x1808 ; ori t0, t0, 0x80
UserModeStatus(m) == Or32(And32(m, Not32(MppMieMask)), MpieBit)

\* csrr t0, 0x300 ... csrw 0x300, t0
set_mstatus ==
    /\ pcl = "set_mstatus"
    /\ mstatus' = UserModeStatus(mstatus)
    /\ x' = [x EXCEPT ![T0] = UserModeStatus(mstatus), ![T1] = Not32(MppMieMask)]
    /\ csrs' = csrs \cup {MstatusCsr}
    /\ pcl' = "set_mepc"
    /\ UNCHANGED <<entryx, state, kstack, mscratch, mepc, mcause, stack_pointer,
                   written, outv, result, spfResult, lastSet, trapx, psteps,
                   nevents, nswitch, onlyEcalls, engineAdvance>>

\* lw t0, 32*4($8) ; csrw 0x341, t0
set_mepc ==
    /\ pcl = "set_mepc"
    /\ x' = [x EXCEPT ![T0] = state.pc]
    /\ mepc' = state.pc
    /\ csrs' = csrs \cup {MepcCsr}
    /\ pcl' = "set_sp"
    /\ UNCHANGED <<entryx, state, kstack, mscratch, mstatus, mcause, stack_pointer,
                   written, outv, result, spfResult, lastSet, trapx, psteps,
                   nevents, nswitch, onlyEcalls, engineAdvance>>

\* add x2, x0, $7
set_sp ==
    /\ pcl = "set_sp"
    /\ x' = [x EXCEPT ![2] = stack_pointer]
    /\ pcl' = "restore"
    /\ UNCHANGED <<entryx, csrs, state, kstack, mscratch, mstatus, mepc, mcause,
                   stack_pointer, written, outv, result, spfResult, lastSet,
                   trapx, psteps, nevents, nswitch, onlyEcalls, engineAdvance>>

\* (mutant) register n restored from slot n
RestoreSlot_OffByOne(n) == n

\* the record slot `lw xn, slot*4($8)` reads for register n
RestoreSlot(n) == n - 1

\* lw x1, 0*4($8) ; lw x3, 2*4($8) ... lw x31, 30*4($8)
RestoredRegs(regs, st) ==
    [n \in Regs |-> IF n \in Restored THEN st.regs[RestoreSlot(n)] ELSE regs[n]]

restore_app_registers ==
    /\ pcl = "restore"
    /\ x' = RestoredRegs(x, state)
    /\ pcl' = "mret"
    /\ UNCHANGED <<entryx, csrs, state, kstack, mscratch, mstatus, mepc, mcause,
                   stack_pointer, written, outv, result, spfResult, lastSet,
                   trapx, psteps, nevents, nswitch, onlyEcalls, engineAdvance>>

\* mret: the process starts at mepc with the register file as restored
mret ==
    /\ pcl = "mret"
    /\ pcl' = "process"
    /\ psteps' = 0
    /\ UNCHANGED <<entryx, csrs, state, x, kstack, mscratch, mstatus, mepc, mcause,
                   stack_pointer, written, outv, result, spfResult, lastSet,
                   trapx, nevents, nswitch, onlyEcalls, engineAdvance>>

\* ------------------------------------------------------------ the process
\* the process executes: it writes one of its registers
process_step ==
    /\ pcl = "process"
    /\ nevents < MaxEvents
    /\ nevents' = nevents + 1
    /\ \E n \in ProcWrites, v \in ProcWords : x' = [x EXCEPT ![n] = v]
    /\ psteps' = psteps + 1
    /\ UNCHANGED <<entryx, csrs, pcl, state, kstack, mscratch, mstatus, mepc, mcause,
                   stack_pointer, written, outv, result, spfResult, lastSet,
                   trapx, nswitch, onlyEcalls, engineAdvance>>

\* The record as the trap entry leaves it: register xn in slot n-1 (the
\* stack pointer in slot 1), the trap PC in pc.
TrapSavedState(st, regs, tpc) ==
    [regs |-> [i \in Slots |-> IF i + 1 \in Regs THEN regs[i + 1] ELSE st.regs[i]],
     pc   |-> tpc]

\* A trap: the hardware sets mepc and mcause; the trap entry stores the
\* process registers and mepc in the record, puts mcause in mscratch,
\* recovers the kernel stack pointer and jumps to _return_to_kernel.
Trap(causes, pcs) ==
    /\ pcl = "process"
    /\ \E cause \in causes, tpc \in pcs \cup {mepc} :
          /\ mcause' = cause
          /\ mepc' = tpc
          /\ state' = TrapSavedState(state, x, tpc)
          /\ mscratch' = cause
    /\ trapx' = x
    /\ x' = [x EXCEPT ![2] = mscratch]
    /\ lastSet' = NoSet
    /\ pcl' = "_return_to_kernel"
    /\ UNCHANGED <<entryx, csrs, kstack, mstatus, stack_pointer, written, outv, result,
                   spfResult, psteps, nevents, nswitch, onlyEcalls,
                   engineAdvance>>

trap == Trap(CauseValues, TrapPcs)

\* ------------------------------------- switch_to_process: after the trap
IsInterrupt(cause) == cause < 0                   \* blt t0, x0, _app_interrupt

\* (mutant) the andi is missing
CanonicalCode_Unmasked(cause) == cause

CanonicalCode(cause) == And32(cause, CauseMask)   \* andi t0, t0, 0x1ff
IsEcall(cause) == ~IsInterrupt(cause) /\ CanonicalCode(cause) = EcallUmode

\* the value of a control register
ReadCsr(addr) ==
    CASE addr = MstatusCsr  -> mstatus
      [] addr = MscratchCsr -> mscratch
      [] addr = MepcCsr     -> mepc
      [] addr = McauseCsr   -> mcause

\* (mutant) the cause is read from mcause itself
CauseReadCsr_Mcause == McauseCsr

\* csrr t0, 0x340: the control register the cause is read from
CauseReadCsr == MscratchCsr

\* _return_to_kernel: csrr t0, 0x340 ; blt t0, x0, _app_interrupt ; andi
AfterReturnToKernel(cause) ==
    IF IsInterrupt(cause) THEN "_app_interrupt" ELSE "_check_ecall_umode"

return_to_kernel ==
    /\ pcl = "_return_to_kernel"
    /\ pcl' = AfterReturnToKernel(ReadCsr(CauseReadCsr))
    /\ x' = [x EXCEPT ![T0] = IF IsInterrupt(ReadCsr(CauseReadCsr))
                               THEN ReadCsr(CauseReadCsr)
                               ELSE CanonicalCode(ReadCsr(CauseReadCsr))]
    /\ csrs' = csrs \cup {CauseReadCsr}
    /\ UNCHANGED <<entryx, state, kstack, mscratch, mstatus, mepc, mcause,
                   stack_pointer, written, outv, result, spfResult, lastSet,
                   trapx, psteps, nevents, nswitch, onlyEcalls, engineAdvance>>

\* _check_ecall_umode: li t1, 8 ; beq t0, t1, _done ; otherwise control
\* falls through the comments into _app_interrupt
AfterCheckEcall(code) ==
    IF code = EcallUmode THEN "_done" ELSE "_app_interrupt"

check_ecall_umode ==
    /\ pcl = "_check_ecall_umode"
    /\ x' = [x EXCEPT ![T1] = EcallUmode]
    /\ pcl' = AfterCheckEcall(x[T0])
    /\ UNCHANGED <<entryx, csrs, state, kstack, mscratch, mstatus, mepc, mcause,
                   stack_pointer, written, outv, result, spfResult, lastSet,
                   trapx, psteps, nevents, nswitch, onlyEcalls, engineAdvance>>

\* (mutant) an interrupt resumes the process at once
AfterAppInterrupt_Resume == "mret"

\* _app_interrupt: (li $0, 1 is commented out) j _ecall
AfterAppInterrupt == "_ecall"

app_interrupt ==
    /\ pcl = "_app_interrupt"
    /\ pcl' = AfterAppInterrupt
    /\ UNCHANGED <<entryx, csrs, state, x, kstack, mscratch, mstatus, mepc, mcause,
                   stack_pointer, written, outv, result, spfResult, lastSet,
                   trapx, psteps, nevents, nswitch, onlyEcalls, engineAdvance>>

\* (mutant) the stack pointer is fetched from the slot after its own
FetchedOutputs_SpFromSlot2(st, o) ==
    [i \in 0..6 |->
        CASE i = 1 -> st.regs[A0Slot]
          [] i = 2 -> st.regs[A1Slot]
          [] i = 3 -> st.regs[A2Slot]
          [] i = 4 -> st.regs[A3Slot]
          [] i = 5 -> st.regs[A4Slot]
          [] i = 6 -> st.regs[SpSlot + 1]
          [] OTHER -> o[i]]

\* _done: lw $1..$5 from slots 9..13, lw $6 from slot 1
FetchedOutputs(st, o) ==
    [i \in 0..6 |->
        CASE i = 1 -> st.regs[A0Slot]
          [] i = 2 -> st.regs[A1Slot]
          [] i = 3 -> st.regs[A2Slot]
          [] i = 4 -> st.regs[A3Slot]
          [] i = 5 -> st.regs[A4Slot]
          [] i = 6 -> st.regs[SpSlot]
          [] OTHER -> o[i]]

done ==
    /\ pcl = "_done"
    /\ outv' = FetchedOutputs(state, outv)
    /\ written' = written \cup 1..6
    /\ pcl' = "_ecall"
    /\ UNCHANGED <<entryx, csrs, state, x, kstack, mscratch, mstatus, mepc, mcause,
                   stack_pointer, result, spfResult, lastSet, trapx, psteps,
                   nevents, nswitch, onlyEcalls, engineAdvance>>

\* (mutant) the PC is written back without the increment
AdvancedPc_NoIncrement(pc) == pc

\* _ecall: lw t0, 32*4($8) ; addi t0, t0, 4 ; sw t0, 32*4($8)
AdvancedPc(pc) == Add32(pc, InsnWidth)

ecall ==
    /\ pcl = "_ecall"
    /\ state' = [state EXCEPT !.pc = AdvancedPc(state.pc)]
    /\ x' = [x EXCEPT ![T0] = AdvancedPc(state.pc)]
    /\ engineAdvance' = engineAdvance + InsnWidth
    /\ pcl' = "asm_end"
    /\ UNCHANGED <<entryx, csrs, kstack, mscratch, mstatus, mepc, mcause, stack_pointer,
                   written, outv, result, spfResult, lastSet, trapx, psteps,
                   nevents, nswitch, onlyEcalls>>

\* ------------------------------------------------- outcome construction
RecognizedClasses == 0..5

\* kernel::syscall::arguments_to_syscall
arguments_to_syscall(class, r0, r1, r2, r3) ==
    IF class \in RecognizedClasses
    THEN [some |-> TRUE, class |-> class, args |-> <<r0, r1, r2, r3>>]
    ELSE [some |-> FALSE, class |-> 0, args |-> <<0, 0, 0, 0>>]

\* if switchReason == 1 .. else if switchReason == 2 .. else match syscall
Outcome(switchReason, syscall) ==
    IF switchReason = 1
    THEN [tag |-> "Interrupted", class |-> 0, args |-> <<0, 0, 0, 0>>]
    ELSE IF switchReason = 2
    THEN [tag |-> "Fault", class |-> 0, args |-> <<0, 0, 0, 0>>]
    ELSE IF syscall.some
    THEN [tag |-> "SyscallFired", class |-> syscall.class, args |-> syscall.args]
    ELSE [tag |-> "Fault", class |-> 0, args |-> <<0, 0, 0, 0>>]

\* (newsp as *mut usize, ret) from the seven output operands
\* (o[1..6] are $1..$6, o[7] is $0)
SwitchResult(o) ==
    LET syscall == arguments_to_syscall(AsU8(o[1]), o[2], o[3], o[4], o[5])
        ret     == Outcome(o[7], syscall)
    IN  [newsp |-> o[6], tag |-> ret.tag, class |-> ret.class, args |-> ret.args]

\* The values output operand i can have when the template ends: what the
\* template wrote, anything if it did not write it.
OutputValues(w, o, i) ==
    IF i \in w THEN {o[i]}
    ELSE IF i = 0 THEN MarkerGarbage
    ELSE WordGarbage

\* the end of the template and the Rust code after it
outcome ==
    /\ pcl = "asm_end"
    /\ \E o0 \in OutputValues(written, outv, 0), o1 \in OutputValues(written, outv, 1),
          o2 \in OutputValues(written, outv, 2), o3 \in OutputValues(written, outv, 3),
          o4 \in OutputValues(written, outv, 4), o5 \in OutputValues(written, outv, 5),
          o6 \in OutputValues(written, outv, 6) :
          result' = SwitchResult(<<o1, o2, o3, o4, o5, o6, o0>>)
    /\ nswitch' = nswitch + 1
    /\ onlyEcalls' = (onlyEcalls /\ IsEcall(mcause))
    /\ stack_pointer' = 0
    /\ pcl' = "kernel"
    /\ UNCHANGED <<entryx, csrs, state, x, kstack, mscratch, mstatus, mepc, mcause,
                   written, outv, spfResult, lastSet, trapx,
                   psteps, nevents, engineAdvance>>

Next ==
    \/ set_syscall_return_value
    \/ set_process_function
    \/ save_kernel_registers
    \/ save_mscratch
    \/ set_mstatus
    \/ set_mepc
    \/ set_sp
    \/ restore_app_registers
    \/ mret
    \/ process_step
    \/ trap
    \/ return_to_kernel
    \/ check_ecall_umode
    \/ app_interrupt
    \/ done
    \/ ecall
    \/ outcome

Spec == Init /\ [][Next]_vars

\* ------------------------------------------- one switch, hardware values
\* One switch of a freshly constructed record, over a wider choice of the
\* values the hardware supplies: mstatus before the switch, mcause at the
\* trap.
MstatusSweep == {0, 8, 128, 2048, 6144, 6280, -1, MinInt32, MinInt32 + 6152,
                 MaxInt32 - 6152}
CauseSweep   == {0, 2, 8, 11, 264, 514, 520, 1073741832, MaxInt32,
                 -1, MinInt32, MinInt32 + 7, MinInt32 + 8, MinInt32 + 520}

InitSweep ==
    /\ pcl = "kernel"
    /\ state = DefaultStoredState
    /\ x = KernelRegs
    /\ kstack = [i \in 0..(KernelSaveSize - 1) |-> 0]
    /\ mscratch = 0
    /\ mstatus \in MstatusSweep
    /\ mepc = 0
    /\ mcause = 0
    /\ stack_pointer = 0
    /\ written = {}
    /\ outv = [i \in 0..6 |-> 0]
    /\ result = NoResult
    /\ spfResult = NoSpf
    /\ lastSet = NoSet
    /\ trapx = [n \in Regs |-> 0]
    /\ psteps = 0
    /\ nevents = MaxEvents - 1
    /\ nswitch = 0
    /\ onlyEcalls = TRUE
    /\ engineAdvance = 0
    /\ entryx = KernelRegs
    /\ csrs = {}

trap_sweep == Trap(CauseSweep, TrapPcs)

NextSweep ==
    \/ save_kernel_registers
    \/ save_mscratch
    \/ set_mstatus
    \/ set_mepc
    \/ set_sp
    \/ restore_app_registers
    \/ mret
    \/ trap_sweep
    \/ return_to_kernel
    \/ check_ecall_umode
    \/ app_interrupt
    \/ done
    \/ ecall
    \/ outcome

SpecSweep == InitSweep /\ [][NextSweep]_vars

\* ================================================================ claims
\* switch_to_process has returned and the record is as it left it
JustReturned == pcl = "kernel" /\ result.tag # "None" /\ lastSet.op = "none"

\* the process has just been entered by mret
AtEntry == pcl = "process" /\ psteps = 0

\* the trap cause is neither an interrupt nor an environment call
Unhandled(cause) == ~IsInterrupt(cause) /\ CanonicalCode(cause) # EcallUmode

\* C1: after a trap whose cause is not an interrupt and whose canonical
\* code is not 8, the switch reaches the halt loop: it does not reach the
\* PC advance, the end of the template or the scheduler.
C1_UnhandledCauseHalts ==
    Unhandled(mcause) =>
        /\ pcl \notin {"_ecall", "asm_end"}
        /\ ~JustReturned

\* C2: when the process traps with a cause whose sign bit is set,
\* switch_to_process returns Interrupted.
C2_InterruptReturnsInterrupted ==
    (JustReturned /\ IsInterrupt(mcause)) => result.tag = "Interrupted"

\* C3: an environment-call trap leaves the saved PC at the trap PC plus 4
\* (on 32 bits), and after N switches that all ended in an environment
\* call the engine has added N x 4 in total.
C3_EcallAdvancesPcOnce ==
    /\ ((pcl = "asm_end" \/ JustReturned) /\ IsEcall(mcause))
          => state.pc = Add32(mepc, 4)
    /\ (pcl = "kernel" /\ onlyEcalls) => engineAdvance = nswitch * 4

C3_Witness ==
    /\ JustReturned
    /\ onlyEcalls
    /\ nswitch = 2
    /\ state.pc = 4108

\* C4: set_syscall_return_value(state, v) changes only the a0 slot of the
\* record, and at the next entry the process sees v in x10, every other
\* restored register as the record holds it, and the record's PC in mepc.
C4_ReturnValueRoundTrip ==
    /\ [][set_syscall_return_value =>
            /\ state'.regs[9] = lastSet'.v
            /\ \A i \in Slots \ {9} : state'.regs[i] = state.regs[i]
            /\ state'.pc = state.pc]_vars
    /\ [](AtEntry =>
            /\ lastSet.op = "srv" => x[10] = lastSet.v
            /\ \A n \in Restored : x[n] = state.regs[n - 1]
            /\ mepc = state.pc)

C4_Witness ==
    /\ AtEntry
    /\ lastSet.op = "srv"
    /\ x[10] = -1
    /\ x[11] = 2
    /\ mepc = 4096

\* C5: set_process_function with first_function = true leaves the ra slot
\* unchanged; with first_function = false it sets the ra slot to the PC the
\* record had before the call.
C5_RaOnPriming ==
    [][set_process_function =>
        /\ lastSet'.first => state'.regs[0] = state.regs[0]
        /\ ~lastSet'.first => state'.regs[0] = state.pc]_vars

\* an upcall primed over a record whose PC was 0x1000: ra is 0x1000, not
\* the new entry address
C5_Witness ==
    /\ pcl = "kernel"
    /\ lastSet.op = "spf"
    /\ ~lastSet.first
    /\ lastSet.cb.pc = MaxInt32 - 3
    /\ state.regs[0] = 4096

\* C6: when set_process_function was the last writer, the process is
\* entered with mepc = the call's entry address and a0..a3 = its arguments.
C6_PrimedEntry ==
    (AtEntry /\ lastSet.op = "spf") =>
        /\ mepc = lastSet.cb.pc
        /\ <<x[10], x[11], x[12], x[13]>> = lastSet.cb.args

C6_Witness ==
    /\ AtEntry
    /\ lastSet.op = "spf"
    /\ nswitch = 0
    /\ mepc = 4096
    /\ <<x[10], x[11], x[12], x[13]>> = <<1, 2, 3, 4>>

\* C7: after an environment call whose class the decoder accepts, the
\* switch returns SyscallFired with class = a0 at the trap (one byte) and
\* arguments = a1..a4 at the trap.
C7_EcallReturnsRequest ==
    (JustReturned /\ IsEcall(mcause) /\ AsU8(trapx[10]) \in RecognizedClasses) =>
        /\ result.tag = "SyscallFired"
        /\ result.class = AsU8(trapx[10])
        /\ result.args = <<trapx[11], trapx[12], trapx[13], trapx[14]>>

\* C8: after an environment call whose class the decoder rejects, the
\* switch returns Fault.
C8_RejectedClassFaults ==
    (JustReturned /\ IsEcall(mcause) /\ AsU8(trapx[10]) \notin RecognizedClasses) =>
        result.tag = "Fault"

\* C9: whenever the switch returns, its first result is the stack pointer
\* the process had at the trap.
C9_NewSpIsTrapSp ==
    JustReturned => result.newsp = trapx[2]

\* C10: set_process_function returns the success variant carrying the
\* stack pointer it was given.
C10_PrimeNeverFails ==
    (pcl = "kernel" /\ lastSet.op = "spf") =>
        spfResult = [tag |-> "Ok", sp |-> lastSet.sp]

C10_Witness ==
    /\ pcl = "kernel"
    /\ lastSet.op = "spf"
    /\ spfResult.sp = 8448
    /\ nswitch = 1

\* C11: when switch_to_process has returned, x1 and x3..x31 hold the values
\* saved on the kernel stack at entry and the stack pointer is the kernel
\* stack pointer of the entry (here KernelStackTop: the scheduler does not
\* move it between calls).
C11_KernelContextRestored ==
    JustReturned =>
        /\ x[1] = kstack[0]
        /\ \A n \in 3..31 : x[n] = kstack[n - 2]
        /\ x[2] = KernelStackTop

\* control locations of the template between the kernel register save and
\* the privileged return
EnterPcs == {"csrw_mscratch", "set_mstatus", "set_mepc", "set_sp", "restore", "mret"}

\* the entry values of x1, x3..x31 and the record pointer are on the kernel
\* stack and mscratch holds the kernel stack pointer
KernelSaved ==
    /\ kstack[0] = entryx[1]
    /\ \A i \in 1..29 : kstack[i] = entryx[i + 2]
    /\ kstack[30] = StateAddress
    /\ mscratch = entryx[2] - 31 * 4

\* some register no longer holds the kernel's value
Overwritten ==
    \E n \in Regs : x[n] # (IF n = 2 THEN entryx[2] - 31 * 4 ELSE entryx[n])

\* C12: before any register is overwritten (temporaries and stack pointer
\* included) the kernel registers and the record pointer are on the kernel
\* stack and mscratch holds the kernel stack pointer; and when the process
\* runs, mstatus has been updated and mepc written.
C12_SaveBeforeClobber ==
    /\ (pcl \in EnterPcs \cup {"process"} /\ Overwritten) => KernelSaved
    /\ pcl = "process" =>
          /\ And32(mstatus, 6152) = 0
          /\ And32(mstatus, 128) = 128
          /\ mepc = state.pc

\* the temporaries have been overwritten by the status update, the process
\* registers are not yet installed
C12_Witness ==
    /\ pcl = "set_mepc"
    /\ x[5] # entryx[5]
    /\ x[6] # entryx[6]
    /\ KernelSaved
    /\ mstatus = 6280 - 6152

\* C13: for every prior value of mstatus, the value written before mret has
\* bits 3, 11 and 12 clear, bit 7 set and every other bit as before.
C13_StatusUpdate ==
    [][(pcl = "set_mstatus" /\ pcl' = "set_mepc") =>
        \A k \in 0..31 :
            BitOf(mstatus', k) = (IF k \in {3, 11, 12} THEN 0
                                  ELSE IF k = 7 THEN 1
                                  ELSE BitOf(mstatus, k))]_vars

\* from 0xffffffff: 0xffffe7f7
C13_Witness ==
    /\ pcl = "set_mepc"
    /\ mstatus = -6153
    /\ x[5] = -6153

\* C14: the syscall path (_done, which writes $1..$6) is taken exactly when
\* the sign bit of the cause is clear and its low 9 bits are 8; a cause
\* with the sign bit set never reaches the exception-code check.
C14_ClassificationBits ==
    /\ pcl \in {"_ecall", "asm_end"} =>
          ((written = 1..6) <=> (mcause >= 0 /\ mcause % 512 = 8))
    /\ pcl \in {"_check_ecall_umode", "_done"} => mcause >= 0

\* 0x40000008 differs from 8 only in bit 30 and takes the syscall path
C14_Witness ==
    /\ pcl = "_ecall"
    /\ written = 1..6
    /\ mcause = 1073741832

\* the phase of a control location
Phase(p) ==
    IF p = "kernel" THEN "scheduler"
    ELSE IF p \in EnterPcs THEN "kernel-executing"
    ELSE IF p = "process" THEN "process-executing"
    ELSE "trap-entered"

\* ------------------------------------------- a process that uses every register
\* the word the process leaves in register xn
FillBase == 1000
FillWord(n) == FillBase + n

\* the process executes: by the time it traps it has written every register
process_fill ==
    /\ pcl = "process"
    /\ nevents < MaxEvents
    /\ nevents' = nevents + 1
    /\ x' = [n \in Regs |-> FillWord(n)]
    /\ psteps' = psteps + 1
    /\ UNCHANGED <<entryx, csrs, pcl, state, kstack, mscratch, mstatus, mepc, mcause,
                   stack_pointer, written, outv, result, spfResult, lastSet,
                   trapx, nswitch, onlyEcalls, engineAdvance>>

NextRegs ==
    \/ set_syscall_return_value
    \/ set_process_function
    \/ save_kernel_registers
    \/ save_mscratch
    \/ set_mstatus
    \/ set_mepc
    \/ set_sp
    \/ restore_app_registers
    \/ mret
    \/ process_fill
    \/ trap
    \/ return_to_kernel
    \/ check_ecall_umode
    \/ app_interrupt
    \/ done
    \/ ecall
    \/ outcome

SpecRegs == Init /\ [][NextRegs]_vars

\* C15: within a call the phases follow kernel-executing, process-executing,
\* trap-entered, back to the scheduler: the process is entered only by mret,
\* the code after mret is reached only by a trap of the running process, the
\* call returns only from the end of the template, and after the trap
\* neither the enter sequence nor the process is re-entered in that call.
C15_PhaseOrder ==
    [][/\ (Phase(pcl') = "kernel-executing" /\ Phase(pcl) # "kernel-executing")
            => pcl = "kernel"
       /\ (Phase(pcl') = "process-executing" /\ Phase(pcl) # "process-executing")
            => pcl = "mret"
       /\ (Phase(pcl') = "trap-entered" /\ Phase(pcl) # "trap-entered")
            => (pcl = "process" /\ pcl' = "_return_to_kernel")
       /\ (Phase(pcl') = "scheduler" /\ Phase(pcl) # "scheduler")
            => (pcl = "asm_end" /\ nswitch' = nswitch + 1)
       /\ Phase(pcl) = "trap-entered"
            => Phase(pcl') \in {"trap-entered", "scheduler"}]_vars

\* two calls have gone through all phases
C15_Witness ==
    /\ JustReturned
    /\ nswitch = 2
    /\ IsInterrupt(mcause)

\* C16: the template accesses no control register other than 0x300, 0x340
\* and 0x341; from the write of mscratch to the trap it holds the kernel
\* stack pointer; after the trap the word classified is the one in mscratch.
C16_ControlRegisters ==
    /\ csrs \subseteq {768, 832, 833}
    /\ pcl \in {"set_mstatus", "set_mepc", "set_sp", "restore", "mret", "process"}
          => mscratch = entryx[2] - 31 * 4
    /\ pcl = "_check_ecall_umode" => (mscratch >= 0 /\ x[5] = mscratch % 512)
    /\ (pcl = "_app_interrupt" /\ x[6] # 8) => (mscratch < 0 /\ x[5] = mscratch)

C16_Witness ==
    /\ pcl = "_check_ecall_umode"
    /\ csrs = {768, 832, 833}
    /\ mscratch = 520
    /\ x[5] = 8

\* C17: set_process_function changes nothing of the record but the slots of
\* a0..a3, the PC and, when the function is not the first, the slot of ra;
\* every other slot, the sp slot among them, keeps its value, and the
\* stack_pointer argument comes back as the result without reaching the record.
C17_PrimeFrame ==
    [][set_process_function =>
         /\ \A i \in Slots \ {0, 9, 10, 11, 12} : state'.regs[i] = state.regs[i]
         /\ lastSet'.first => state'.regs[0] = state.regs[0]
         /\ spfResult'.sp = lastSet'.sp]_vars

\* a record with every slot in use has been primed
C17_Witness ==
    /\ pcl = "kernel"
    /\ lastSet.op = "spf"
    /\ ~lastSet.first
    /\ state.regs[1] = FillWord(2)
    /\ state.regs[13] = FillWord(14)
    /\ state.regs[8] = FillWord(9)
    /\ lastSet.sp # state.regs[1]

\* C18: one register-to-slot mapping throughout: at process entry register
\* xn (n # 2) holds slot n-1 and x2 holds the stack_pointer argument, not the
\* record's sp slot; a return value set before the switch is in x10, a
\* primed function's arguments are in x10..x13 and its return address in x1;
\* after a system call the five argument words and the stack pointer
\* fetched are those of slots 9..13 and 1 of the record.
C18_SingleMapping ==
    /\ [](AtEntry =>
            /\ \A n \in Restored : x[n] = state.regs[n - 1]
            /\ x[2] = stack_pointer
            /\ lastSet.op = "srv" => x[10] = lastSet.v
            /\ lastSet.op = "spf" =>
                  <<x[10], x[11], x[12], x[13]>> = lastSet.cb.args)
    /\ []((pcl = "_ecall" /\ written = 1..6) =>
            /\ \A i \in 1..5 : outv[i] = state.regs[8 + i]
            /\ outv[6] = state.regs[1])
    /\ [][(set_process_function /\ ~lastSet'.first)
             => state'.regs[0] = state.pc]_vars

\* the second entry of a process that had written every register
C18_Witness ==
    /\ AtEntry
    /\ nswitch = 1
    /\ \A n \in Restored : x[n] = FillWord(n)
    /\ state.regs[1] = FillWord(2)
    /\ x[2] = stack_pointer
    /\ x[2] # state.regs[1]

\* C19: when the process trapped with a cause whose sign bit is set (an
\* interrupt), the saved resume PC at the end of the call is the PC of the
\* trap, not advanced.
C19_InterruptKeepsPc ==
    (pcl = "asm_end" /\ IsInterrupt(mcause)) => state.pc = mepc

====
